---- MODULE Spec2Model ----
(***************************************************************************)
(* A model of micrograd: the scalar reverse-mode autodiff engine of        *)
(* micrograd/engine.py (class Value) and the parameter reset of            *)
(* micrograd/nn.py (Module.zero_grad, Neuron.parameters).                  *)
(*                                                                         *)
(* Value objects live in an arena, the sequence nodes; a Value is named by *)
(* its index.  Python floats are modelled as exact rationals <<n, d>> in   *)
(* lowest terms with d > 0, so that x ** -1 and the derivative of a power  *)
(* are computed and not assumed.  A Python exception is the field exc of   *)
(* the record describing the last call.                                    *)
(***************************************************************************)
EXTENDS Integers, Sequences, FiniteSets

VARIABLES
    nodes,      \* the Value objects created so far, in creation order
    neurons,    \* the Neuron objects created so far
    last,       \* the most recent call: operation, arguments, result, exception
    topo,       \* the list built by build_topo in the most recent backward()
    called,     \* the nodes whose _backward ran in the most recent backward()
    hist        \* the backward() and zero_grad() calls made so far

vars == <<nodes, neurons, last, topo, called, hist>>

(***************************************************************************)
(* Bounds of the exploration.                                              *)
(***************************************************************************)
MaxNodes == 3
MaxData == 1
MaxExp == 2
MaxIn == 1
MaxCalls == 2
MaxRuleNodes == 2
MaxRuleCalls == 1
MaxModuleCalls == 3
MaxDepth == 3
MaxOperands == 2
MaxPlain == 1

Data == (-1)..MaxData
Exponents == (-1)..MaxExp
WeightData == {-1, 0, 1}
PlainData == 0..MaxPlain

(***************************************************************************)
(* Exact arithmetic standing for Python's float arithmetic.                *)
(***************************************************************************)
Abs(i) == IF i < 0 THEN 0 - i ELSE i

RECURSIVE GCD(_, _)
GCD(a, b) == IF b = 0 THEN a ELSE GCD(b, a % b)

Rat(n, d) ==
    LET g == GCD(Abs(n), Abs(d))
        s == IF d < 0 THEN 0 - 1 ELSE 1
    IN  <<(s * n) \div g, (s * d) \div g>>

RInt(i) == <<i, 1>>
Zero == RInt(0)
One == RInt(1)

RAdd(x, y) == Rat(x[1] * y[2] + y[1] * x[2], x[2] * y[2])
RMul(x, y) == Rat(x[1] * y[1], x[2] * y[2])
RNeg(x) == <<0 - x[1], x[2]>>
RLess(x, y) == x[1] * y[2] < y[1] * x[2]

RECURSIVE IntPow(_, _)
IntPow(b, e) == IF e = 0 THEN 1 ELSE b * IntPow(b, e - 1)

\* x ** k raises ZeroDivisionError exactly when x = 0 and k < 0.
PowRaises(x, k) == x[1] = 0 /\ k < 0

\* x ** k for an integer k when it does not raise (0 ** 0 is 1).
PyPow(x, k) ==
    IF k >= 0 THEN Rat(IntPow(x[1], k), IntPow(x[2], k))
    ELSE Rat(IntPow(x[2], 0 - k), IntPow(x[1], 0 - k))

(***************************************************************************)
(* Operands: a Value (by index) or a plain Python number.                  *)
(***************************************************************************)
Val(i) == [kind |-> "Value", v |-> i]
Num(r) == [kind |-> "num", v |-> r]
NoArg == [kind |-> "none", v |-> 0]
IsValue(x) == x.kind = "Value"

\* Value.__init__: grad 0.0, _backward a no-op (op "leaf"), _prev the SET of
\* the children.  The operation that builds the node then sets _backward:
\* op, args and k stand for the closure (its kind and what it captured).
ValueInit(data, children) ==
    [data |-> data, grad |-> Zero, op |-> "leaf", args |-> <<>>, k |-> 0,
     prev |-> {children[i] : i \in 1..Len(children)}]

SetBackward(node, op, args, k) == [node EXCEPT !.op = op, !.args = args, !.k = k]

Ok(ns, ret) == [nodes |-> ns, ret |-> ret, exc |-> "none"]
Raise(ns, e) == [nodes |-> ns, ret |-> NoArg, exc |-> e]

\* other = other if isinstance(other, Value) else Value(other)
Wrap(ns, other) ==
    IF IsValue(other) THEN [nodes |-> ns, idx |-> other.v]
    ELSE [nodes |-> Append(ns, ValueInit(other.v, <<>>)), idx |-> Len(ns) + 1]

ValueAdd(ns, self, other) ==
    LET w == Wrap(ns, other)
        out == ValueInit(RAdd(w.nodes[self].data, w.nodes[w.idx].data), <<self, w.idx>>)
    IN  Ok(Append(w.nodes, SetBackward(out, "add", <<self, w.idx>>, 0)), Val(Len(w.nodes) + 1))

ValueMul(ns, self, other) ==
    LET w == Wrap(ns, other)
        out == ValueInit(RMul(w.nodes[self].data, w.nodes[w.idx].data), <<self, w.idx>>)
    IN  Ok(Append(w.nodes, SetBackward(out, "mul", <<self, w.idx>>, 0)), Val(Len(w.nodes) + 1))

\* A variant of __pow__ without the assert, reading a Value exponent's data.
ValuePowUnchecked(ns, self, other) ==
    LET k == IF IsValue(other) THEN ns[other.v].data[1] ELSE other.v[1]
    IN  IF PowRaises(ns[self].data, k) THEN Raise(ns, "ZeroDivisionError")
        ELSE LET out == ValueInit(PyPow(ns[self].data, k), <<self>>)
             IN  Ok(Append(ns, SetBackward(out, "pow", <<self>>, k)), Val(Len(ns) + 1))

\* Value.__pow__: the exponent must be a plain int/float (the assert), and
\* self.data ** other is evaluated before the output Value is built.
ValuePow(ns, self, other) ==
    IF IsValue(other) THEN Raise(ns, "AssertionError")
    ELSE IF PowRaises(ns[self].data, other.v[1]) THEN Raise(ns, "ZeroDivisionError")
    ELSE LET out == ValueInit(PyPow(ns[self].data, other.v[1]), <<self>>)
         IN  Ok(Append(ns, SetBackward(out, "pow", <<self>>, other.v[1])), Val(Len(ns) + 1))

\* Value.relu: data is 0 if self.data < 0 else self.data.
ValueRelu(ns, self) ==
    LET d == ns[self].data
        out == ValueInit(IF RLess(d, Zero) THEN Zero ELSE d, <<self>>)
    IN  Ok(Append(ns, SetBackward(out, "relu", <<self>>, 0)), Val(Len(ns) + 1))

\* Value.__neg__: self * -1.
ValueNeg(ns, self) == ValueMul(ns, self, Num(RInt(-1)))

\* Value.__sub__: self + (-other); -other is __neg__ for a Value and plain
\* negation for a number.
ValueSub(ns, self, other) ==
    IF IsValue(other)
    THEN LET n == ValueNeg(ns, other.v) IN ValueAdd(n.nodes, self, n.ret)
    ELSE ValueAdd(ns, self, Num(RNeg(other.v)))

\* Value.__truediv__: self * other ** -1, the power first.
ValueTrueDiv(ns, self, other) ==
    IF IsValue(other)
    THEN LET p == ValuePow(ns, other.v, Num(RInt(-1)))
         IN  IF p.exc # "none" THEN p ELSE ValueMul(p.nodes, self, p.ret)
    ELSE IF PowRaises(other.v, -1) THEN Raise(ns, "ZeroDivisionError")
    ELSE ValueMul(ns, self, Num(PyPow(other.v, -1)))

\* Value.__radd__ and Value.__rmul__: self + other, self * other.
ValueRAdd(ns, self, other) == ValueAdd(ns, self, other)
ValueRMul(ns, self, other) == ValueMul(ns, self, other)

\* Value.__rtruediv__: other * self ** -1; the number's own __mul__ does not
\* know Value, so Python calls Value.__rmul__ on the power.
ValueRTrueDiv(ns, self, other) ==
    LET p == ValuePow(ns, self, Num(RInt(-1)))
    IN  IF p.exc # "none" THEN p ELSE ValueRMul(p.nodes, p.ret.v, other)

\* Value.__rsub__: other - self.  Python evaluates left - right by calling
\* left.__sub__(right); a plain number's __sub__ returns NotImplemented for
\* a Value, and Python then calls the reflected right.__rsub__(left).
\* depth is the interpreter's call depth, which raises RecursionError
\* when it passes its limit.
RECURSIVE ValueRSub(_, _, _, _)
ValueRSub(ns, self, other, depth) ==
    IF depth > MaxDepth THEN Raise(ns, "RecursionError")
    ELSE IF IsValue(other) THEN ValueSub(ns, other.v, Val(self))
    ELSE ValueRSub(ns, self, other, depth + 1)

(***************************************************************************)
(* The _backward closures.                                                 *)
(***************************************************************************)
\* A variant of the accumulation that assigns: grad = x in place of grad += x.
AssignGrad(ns, i, x) == [ns EXCEPT ![i].grad = x]

\* node.grad += x
AddGrad(ns, i, x) == [ns EXCEPT ![i].grad = RAdd(@, x)]

\* A variant of __add__._backward that adds once per member of out._prev.
RECURSIVE AddToEach(_, _, _)
AddToEach(ns, S, x) ==
    IF S = {} THEN ns
    ELSE LET c == CHOOSE y \in S : TRUE
         IN  AddToEach(AddGrad(ns, c, x), S \ {c}, x)

AddBackwardPerParent(ns, out) == AddToEach(ns, ns[out].prev, RMul(ns[out].grad, One))

\* __add__._backward: self.grad += out.grad * 1.0; other.grad += out.grad * 1.0
AddBackward(ns, out) ==
    LET a == ns[out].args
        n1 == AddGrad(ns, a[1], RMul(ns[out].grad, One))
    IN  AddGrad(n1, a[2], RMul(n1[out].grad, One))

\* A variant of __mul__._backward that multiplies by the operand's own data.
MulBackwardOwnData(ns, out) ==
    LET a == ns[out].args
        n1 == AddGrad(ns, a[1], RMul(ns[out].grad, ns[a[1]].data))
    IN  AddGrad(n1, a[2], RMul(n1[out].grad, n1[a[2]].data))

\* __mul__._backward: self.grad += out.grad * other.data;
\*                    other.grad += out.grad * self.data
MulBackward(ns, out) ==
    LET a == ns[out].args
        n1 == AddGrad(ns, a[1], RMul(ns[out].grad, ns[a[2]].data))
    IN  AddGrad(n1, a[2], RMul(n1[out].grad, n1[a[1]].data))

\* __pow__._backward: self.grad += out.grad * (other * self.data ** (other - 1))
PowBackwardRaises(ns, out) == PowRaises(ns[ns[out].args[1]].data, ns[out].k - 1)

PowBackward(ns, out) ==
    LET s == ns[out].args[1]
        k == ns[out].k
    IN  AddGrad(ns, s, RMul(ns[out].grad, RMul(RInt(k), PyPow(ns[s].data, k - 1))))

\* A variant of relu._backward that tests out.data >= 0.
ReluBackwardNonNegative(ns, out) ==
    AddGrad(ns, ns[out].args[1],
            RMul(ns[out].grad, IF RLess(ns[out].data, Zero) THEN Zero ELSE One))

\* relu._backward: self.grad += out.grad * (out.data > 0)
ReluBackward(ns, out) ==
    AddGrad(ns, ns[out].args[1],
            RMul(ns[out].grad, IF RLess(Zero, ns[out].data) THEN One ELSE Zero))

\* v._backward()
CallBackward(ns, v) ==
    CASE ns[v].op = "leaf" -> [nodes |-> ns, exc |-> "none"]
      [] ns[v].op = "add" -> [nodes |-> AddBackward(ns, v), exc |-> "none"]
      [] ns[v].op = "mul" -> [nodes |-> MulBackward(ns, v), exc |-> "none"]
      [] ns[v].op = "pow" ->
            IF PowBackwardRaises(ns, v) THEN [nodes |-> ns, exc |-> "ZeroDivisionError"]
            ELSE [nodes |-> PowBackward(ns, v), exc |-> "none"]
      [] ns[v].op = "relu" -> [nodes |-> ReluBackward(ns, v), exc |-> "none"]

(***************************************************************************)
(* Value.backward                                                          *)
(***************************************************************************)
RECURSIVE SortedSeq(_)
SortedSeq(S) ==
    IF S = {} THEN <<>>
    ELSE LET m == CHOOSE x \in S : \A y \in S : x <= y
         IN  <<m>> \o SortedSeq(S \ {m})

Reverse(s) == [i \in 1..Len(s) |-> s[Len(s) + 1 - i]]

\* The order in which "for child in v._prev" yields the members of the set.
\* A set's iteration order is not specified; _prev has at most two members,
\* so ascending and descending are all the orders there are.
IterOrder(S, rev) == IF rev THEN Reverse(SortedSeq(S)) ELSE SortedSeq(S)

\* build_topo(v), on the state st = [visited, topo]; rev[n] picks the
\* iteration order of n._prev.
RECURSIVE BuildTopo(_, _, _, _)
RECURSIVE BuildTopoChildren(_, _, _, _, _)
BuildTopo(ns, v, st, rev) ==
    IF v \in st.visited THEN st
    ELSE LET st1 == [st EXCEPT !.visited = @ \cup {v}]
             st2 == BuildTopoChildren(ns, IterOrder(ns[v].prev, rev[v]), 1, st1, rev)
         IN  [st2 EXCEPT !.topo = Append(@, v)]

BuildTopoChildren(ns, children, i, st, rev) ==
    IF i > Len(children) THEN st
    ELSE BuildTopoChildren(ns, children, i + 1, BuildTopo(ns, children[i], st, rev), rev)

\* for v in reversed(topo): v._backward(); an exception ends the loop.
RECURSIVE RunBackward(_, _, _, _)
RunBackward(ns, order, i, done) ==
    IF i > Len(order) THEN [nodes |-> ns, called |-> done, exc |-> "none"]
    ELSE LET r == CallBackward(ns, order[i])
         IN  IF r.exc # "none"
             THEN [nodes |-> r.nodes, called |-> Append(done, order[i]), exc |-> r.exc]
             ELSE RunBackward(r.nodes, order, i + 1, Append(done, order[i]))

\* self.grad = 1
Seed(ns, root) == [ns EXCEPT ![root].grad = One]

ValueBackward(ns, root, rev) ==
    LET t == BuildTopo(ns, root, [visited |-> {}, topo |-> <<>>], rev).topo
        r == RunBackward(Seed(ns, root), Reverse(t), 1, <<>>)
    IN  [nodes |-> r.nodes, topo |-> t, called |-> r.called, exc |-> r.exc]

(***************************************************************************)
(* nn.py: Neuron.parameters, Module.zero_grad                              *)
(***************************************************************************)
\* A variant of Neuron.parameters that leaves the bias out.
NeuronWeights(n) == n.w

\* Neuron.parameters: self.w + [self.b]
NeuronParameters(n) == Append(n.w, n.b)

\* The parameters of all the neurons, as Layer.parameters collects them.
RECURSIVE LayerParameters(_, _)
LayerParameters(ms, i) ==
    IF i > Len(ms) THEN <<>> ELSE NeuronParameters(ms[i]) \o LayerParameters(ms, i + 1)

\* Module.zero_grad: for p in self.parameters(): p.grad = 0
RECURSIVE ModuleZeroGrad(_, _, _)
ModuleZeroGrad(ns, ps, i) ==
    IF i > Len(ps) THEN ns
    ELSE ModuleZeroGrad([ns EXCEPT ![ps[i]].grad = Zero], ps, i + 1)

Grads(ns) == [i \in 1..Len(ns) |-> ns[i].grad]

Init ==
    /\ nodes = <<>>
    /\ neurons = <<>>
    /\ last = [op |-> "none", self |-> 0, other |-> NoArg, out |-> NoArg, exc |-> "none"]
    /\ topo = <<>>
    /\ called = <<>>
    /\ hist = <<>>

Ids == 1..Len(nodes)
Values == {Val(i) : i \in Ids}
Numbers == {Num(RInt(c)) : c \in PlainData}
PlainExponents == {Num(RInt(k)) : k \in Exponents}

\* The outcome res of a call of a graph-building operation.
Outcome(op, self, other, res) ==
    /\ nodes' = res.nodes
    /\ last' = [op |-> op, self |-> self, other |-> other, out |-> res.ret, exc |-> res.exc]
    /\ topo' = <<>>
    /\ called' = <<>>
    /\ UNCHANGED <<neurons, hist>>

\* A call that leaves at most limit nodes.
Call(limit, op, self, other, res) == Len(res.nodes) <= limit /\ Outcome(op, self, other, res)

\* A call made while there are at most MaxOperands nodes.
Apply(op, self, other, res) == Len(nodes) <= MaxOperands /\ Outcome(op, self, other, res)

NewValue(d) == Ok(Append(nodes, ValueInit(RInt(d), <<>>)), Val(Len(nodes) + 1))

\* Value(data) made by user code.
NewLeafUpTo(limit) == \E d \in Data : Call(limit, "Value", 0, Num(RInt(d)), NewValue(d))

\* Neuron(nin): nin weights drawn by random.uniform(-1, 1) and a bias of 0.0.
\* (The flag nonlin, read only by Neuron.__call__, is left out.)
NewNeuron ==
    \E nin \in 0..MaxIn : \E ws \in [1..nin -> WeightData] :
        LET w == [i \in 1..nin |-> ValueInit(RInt(ws[i]), <<>>)]
            b == ValueInit(Zero, <<>>)
        IN  /\ Len(nodes) + nin + 1 <= MaxNodes
            /\ nodes' = (nodes \o w) \o <<b>>
            /\ neurons' = Append(neurons, [w |-> [i \in 1..nin |-> Len(nodes) + i],
                                           b |-> Len(nodes) + nin + 1])
            /\ last' = [op |-> "Neuron", self |-> 0, other |-> NoArg, out |-> NoArg, exc |-> "none"]
            /\ topo' = <<>>
            /\ called' = <<>>
            /\ UNCHANGED hist

\* self + other, self * other, self ** other, self.relu() on Values.
AddUpTo(limit) ==
    \E s \in Ids : \E o \in Values : Call(limit, "add", s, o, ValueAdd(nodes, s, o))
MulUpTo(limit) ==
    \E s \in Ids : \E o \in Values : Call(limit, "mul", s, o, ValueMul(nodes, s, o))
PowUpTo(limit) ==
    \E s \in Ids : \E o \in PlainExponents : Call(limit, "pow", s, o, ValuePow(nodes, s, o))
ReluUpTo(limit) == \E s \in Ids : Call(limit, "relu", s, NoArg, ValueRelu(nodes, s))

NewLeaf == NewLeafUpTo(MaxNodes)
Add == AddUpTo(MaxNodes)
Mul == MulUpTo(MaxNodes)
Pow == PowUpTo(MaxNodes)
Relu == ReluUpTo(MaxNodes)

NewRuleLeaf == NewLeafUpTo(MaxRuleNodes)
AddRule == AddUpTo(MaxRuleNodes)
MulRule == MulUpTo(MaxRuleNodes)
PowRule == PowUpTo(MaxRuleNodes)
ReluRule == ReluUpTo(MaxRuleNodes)

\* The catalogue of operations, each with a Value or a plain number as the
\* other operand, and the reflected forms, which Python calls when the left
\* operand is a plain number.
NewOperand ==
    \E d \in Data : Len(nodes) < MaxOperands /\ Outcome("Value", 0, Num(RInt(d)), NewValue(d))
AddOp ==
    \E s \in Ids : \E o \in Values \cup Numbers : Apply("add", s, o, ValueAdd(nodes, s, o))
MulOp ==
    \E s \in Ids : \E o \in Values \cup Numbers : Apply("mul", s, o, ValueMul(nodes, s, o))
RAddOp == \E s \in Ids : \E o \in Numbers : Apply("radd", s, o, ValueRAdd(nodes, s, o))
RMulOp == \E s \in Ids : \E o \in Numbers : Apply("rmul", s, o, ValueRMul(nodes, s, o))
NegOp == \E s \in Ids : Apply("neg", s, NoArg, ValueNeg(nodes, s))
SubOp ==
    \E s \in Ids : \E o \in Values \cup Numbers : Apply("sub", s, o, ValueSub(nodes, s, o))
RSubOp == \E s \in Ids : \E o \in Numbers : Apply("rsub", s, o, ValueRSub(nodes, s, o, 1))
PowOp ==
    \E s \in Ids : \E o \in Values \cup PlainExponents :
        Apply("pow", s, o, ValuePow(nodes, s, o))
TrueDivOp ==
    \E s \in Ids : \E o \in Values \cup Numbers :
        Apply("truediv", s, o, ValueTrueDiv(nodes, s, o))
RTrueDivOp ==
    \E s \in Ids : \E o \in Numbers : Apply("rtruediv", s, o, ValueRTrueDiv(nodes, s, o))
ReluOp == \E s \in Ids : Apply("relu", s, NoArg, ValueRelu(nodes, s))

\* root.backward(), while fewer than limit calls have been made.
BackwardCall(limit) ==
    /\ Len(hist) < limit
    /\ \E root \in Ids : \E rev \in [Ids -> BOOLEAN] :
        LET r == ValueBackward(nodes, root, rev)
        IN  /\ nodes' = r.nodes
            /\ topo' = r.topo
            /\ called' = r.called
            /\ last' = [op |-> "backward", self |-> root, other |-> NoArg, out |-> NoArg,
                        exc |-> r.exc]
            /\ hist' = Append(hist, [op |-> "backward", root |-> root, before |-> Grads(nodes),
                                     after |-> Grads(r.nodes), exc |-> r.exc])
            /\ UNCHANGED neurons

Backward == BackwardCall(MaxCalls)
RuleBackward == BackwardCall(MaxRuleCalls)
ModuleBackward == BackwardCall(MaxModuleCalls)

\* zero_grad() of the module that holds the neurons.
ZeroGrad ==
    LET ns == ModuleZeroGrad(nodes, LayerParameters(neurons, 1), 1)
    IN  /\ Len(hist) < MaxModuleCalls
        /\ nodes' = ns
        /\ topo' = <<>>
        /\ called' = <<>>
        /\ last' = [op |-> "zero_grad", self |-> 0, other |-> NoArg, out |-> NoArg, exc |-> "none"]
        /\ hist' = Append(hist, [op |-> "zero_grad", root |-> 0, before |-> Grads(nodes),
                                 after |-> Grads(ns), exc |-> "none"])
        /\ UNCHANGED neurons

\* The engine: graphs of the four primitive node kinds, differentiated.
Next ==
    \/ NewLeaf
    \/ Add
    \/ Mul
    \/ Pow
    \/ Relu
    \/ Backward

Spec == Init /\ [][Next]_vars

\* The derivative rules one at a time: expressions of a single operation.
NextRules ==
    \/ NewRuleLeaf
    \/ AddRule
    \/ MulRule
    \/ PowRule
    \/ ReluRule
    \/ RuleBackward

SpecRules == Init /\ [][NextRules]_vars

\* The operator catalogue: every operation, on Values and plain numbers.
NextOps ==
    \/ NewOperand
    \/ AddOp
    \/ MulOp
    \/ RAddOp
    \/ RMulOp
    \/ NegOp
    \/ SubOp
    \/ RSubOp
    \/ PowOp
    \/ TrueDivOp
    \/ RTrueDivOp
    \/ ReluOp

SpecOps == Init /\ [][NextOps]_vars

\* A module: neurons, expressions over their parameters, backward passes
\* and zero_grad.
NextModule ==
    \/ NewNeuron
    \/ Add
    \/ Mul
    \/ Relu
    \/ ModuleBackward
    \/ ZeroGrad

SpecModule == Init /\ [][NextModule]_vars

(***************************************************************************)
(* Vocabulary of the properties.                                           *)
(***************************************************************************)
\* The nodes reachable from the nodes of S through _prev.
RECURSIVE Closure(_, _)
Closure(ns, S) ==
    LET T == S \cup UNION {ns[i].prev : i \in S}
    IN  IF T = S THEN S ELSE Closure(ns, T)

Reach(ns, root) == Closure(ns, {root})

\* The operand slots <<c, s>> of the nodes of C that hold node n.
SlotsOf(ns, C, n) ==
    {cs \in C \X {1, 2} : cs[2] <= Len(ns[cs[1]].args) /\ ns[cs[1]].args[cs[2]] = n}

\* The local derivative of node c with respect to its operand slot s.
Local(ns, c, s) ==
    CASE ns[c].op = "add" -> One
      [] ns[c].op = "mul" -> ns[ns[c].args[3 - s]].data
      [] ns[c].op = "pow" -> RMul(RInt(ns[c].k), PyPow(ns[ns[c].args[1]].data, ns[c].k - 1))
      [] ns[c].op = "relu" -> IF RLess(Zero, ns[c].data) THEN One ELSE Zero

RECURSIVE SumOver(_, _, _, _)
\* The sum of Local(c, s) * w[c] over the slots <<c, s>> of S.
SumOver(ns, S, w, acc) ==
    IF S = {} THEN acc
    ELSE LET cs == CHOOSE x \in S : TRUE
         IN  SumOver(ns, S \ {cs}, w, RAdd(acc, RMul(Local(ns, cs[1], cs[2]), w[cs[1]])))

\* d(root)/d(n): the sum over the paths from root to n of the product of the
\* local derivatives along the path, by recursion on the first edge into n.
RECURSIVE Partial(_, _, _)
Partial(ns, root, n) ==
    IF n = root THEN One
    ELSE LET S == SlotsOf(ns, Reach(ns, root), n)
             w == [c \in {cs[1] : cs \in S} |-> Partial(ns, root, c)]
         IN  SumOver(ns, S, w, Zero)

AllZero(gs) == \A i \in 1..Len(gs) : gs[i] = Zero
IsLeaf(ns, i) == ns[i].op = "leaf"
Occurrences(s, x) == Cardinality({i \in 1..Len(s) : s[i] = x})
Index(s, x) == CHOOSE i \in 1..Len(s) : s[i] = x

\* The state right after a call of backward(); Event is that call's record.
AfterBackward == last.op = "backward"
Event == hist[Len(hist)]

(***************************************************************************)
(* C1.  For a graph of leaf, add and multiply nodes whose gradients are    *)
(* all 0 before the call, backward(root) leaves the root's gradient 1 and  *)
(* every other reachable node's gradient equal to d(root)/d(node), the sum *)
(* over all paths of the products of the local derivatives.                *)
(***************************************************************************)
C1_ExactGradients ==
    (/\ AfterBackward
     /\ AllZero(Event.before)
     /\ \A n \in Reach(nodes, Event.root) : nodes[n].op \in {"leaf", "add", "mul"})
    => /\ last.exc = "none"
       /\ nodes[Event.root].grad = One
       /\ \A n \in Reach(nodes, Event.root) \ {Event.root} :
            nodes[n].grad = Partial(nodes, Event.root, n)

\* A pass over a graph in which a leaf of value -1 feeds a product twice
\* and the product feeds the root: the leaf's gradient is neither 0 nor 1.
C1_Witness ==
    /\ AfterBackward
    /\ AllZero(Event.before)
    /\ \A n \in Reach(nodes, Event.root) : nodes[n].op \in {"leaf", "add", "mul"}
    /\ \E n \in Reach(nodes, Event.root) :
        /\ IsLeaf(nodes, n)
        /\ Cardinality(SlotsOf(nodes, Reach(nodes, Event.root), n)) >= 3
        /\ \E c \in Reach(nodes, Event.root) : nodes[c].op = "mul" /\ n \in nodes[c].prev
        /\ nodes[n].grad \notin {Zero, One}

(***************************************************************************)
(* C2.  In backward(root) the _backward of every node reachable from root  *)
(* runs exactly once, that of no other node runs, and a node's _backward   *)
(* runs only after that of every reachable node that has it in _prev; the  *)
(* list topo holds each reachable node once, after all of its parents.     *)
(***************************************************************************)
C2_EachRuleOnceAfterConsumers ==
    AfterBackward =>
        LET R == Reach(nodes, Event.root)
        IN  /\ \A n \in R : Occurrences(topo, n) = 1
            /\ \A i \in 1..Len(topo) : topo[i] \in R
            /\ \A n \in R : \A c \in R :
                 n \in nodes[c].prev => Index(topo, n) < Index(topo, c)
            /\ \A i \in 1..Len(called) : called[i] \in R
            /\ \A n \in R : Occurrences(called, n) = 1
            /\ \A n \in R : \A c \in R :
                 n \in nodes[c].prev => Index(called, c) < Index(called, n)

(***************************************************************************)
(* C3.  For y = x + x with x a leaf of gradient 0, backward(y) leaves      *)
(* x.grad = 2, although y._prev holds x once.                              *)
(***************************************************************************)
SelfSum(y) ==
    /\ nodes[y].op = "add"
    /\ nodes[y].args[1] = nodes[y].args[2]
    /\ IsLeaf(nodes, nodes[y].args[1])

C3_SelfAddition ==
    (/\ AfterBackward
     /\ SelfSum(Event.root)
     /\ Event.before[nodes[Event.root].args[1]] = Zero)
    => /\ last.exc = "none"
       /\ Cardinality(nodes[Event.root].prev) = 1
       /\ nodes[nodes[Event.root].args[1]].grad = RInt(2)

C3_Witness ==
    /\ AfterBackward
    /\ SelfSum(Event.root)
    /\ Event.before[nodes[Event.root].args[1]] = Zero
    /\ nodes[Event.root].prev = {nodes[Event.root].args[1]}
    /\ nodes[nodes[Event.root].args[1]].grad = RInt(2)

(***************************************************************************)
(* C4.  For every leaf a of gradient 0 and every plain exponent k, also    *)
(* k <= 0 with a.data = 0, building z = a ** k and calling backward(z)     *)
(* completes and leaves a.grad = k * a.data ** (k - 1).                    *)
(***************************************************************************)
PowOfLeaf(z) == nodes[z].op = "pow" /\ IsLeaf(nodes, nodes[z].args[1])

C4_PowerGradient ==
    /\ (/\ last.op = "pow"
        /\ ~IsValue(last.other)
        /\ IsLeaf(nodes, last.self)
        /\ nodes[last.self].grad = Zero)
       => last.exc = "none"
    /\ (/\ AfterBackward
        /\ PowOfLeaf(Event.root)
        /\ Event.before[nodes[Event.root].args[1]] = Zero)
       => /\ last.exc = "none"
          /\ nodes[nodes[Event.root].args[1]].grad =
                RMul(RInt(nodes[Event.root].k),
                     PyPow(nodes[nodes[Event.root].args[1]].data, nodes[Event.root].k - 1))

(***************************************************************************)
(* C5.  For a leaf a of gradient 0, y = relu(a) has data max(0, a.data),   *)
(* and backward(y) leaves a.grad = 1 when a.data > 0 and a.grad = 0 when   *)
(* a.data <= 0.                                                            *)
(***************************************************************************)
ReluOfLeaf(y) == nodes[y].op = "relu" /\ IsLeaf(nodes, nodes[y].args[1])
RMax(x, y) == IF RLess(x, y) THEN y ELSE x

C6_NodeExponentRejected ==
    [][(last'.op = "pow" /\ IsValue(last'.other))
        => (last'.exc = "AssertionError" /\ ~IsValue(last'.out) /\ nodes' = nodes)]_vars

C6_Witness ==
    /\ last.op = "pow"
    /\ IsValue(last.other)
    /\ last.other.v # last.self
    /\ last.exc = "AssertionError"

(***************************************************************************)
(* C7.  a / b with b a Value of data 0 does not fail: it returns a new     *)
(* node.                                                                   *)
(***************************************************************************)
C7_DivisionByZeroNode ==
    (/\ last.op = "truediv"
     /\ IsValue(last.other)
     /\ nodes[last.other.v].data = Zero)
    => (last.exc = "none" /\ IsValue(last.out))

(***************************************************************************)
(* C8.  backward(root) overwrites no gradient but the root's: afterwards   *)
(* the root's gradient is 1 and every other node's gradient is the one it  *)
(* had before plus, for each operand slot it fills in a node whose         *)
(* _backward ran to its end, that node's local derivative times that       *)
(* node's gradient.  So two backward calls in a row from z = a * b, with   *)
(* a, b distinct leaves and all gradients 0 before the first, leave        *)
(* z.grad = 1, a.grad = 2 * b.data and b.grad = 2 * a.data.                *)
(***************************************************************************)
\* The nodes whose _backward ran to its end in the last backward().
Completed ==
    IF last.exc = "none" THEN {called[i] : i \in 1..Len(called)}
    ELSE {called[i] : i \in 1..(Len(called) - 1)}

ProductOfLeaves(z) ==
    /\ nodes[z].op = "mul"
    /\ nodes[z].args[1] # nodes[z].args[2]
    /\ IsLeaf(nodes, nodes[z].args[1])
    /\ IsLeaf(nodes, nodes[z].args[2])

\* The last two calls were backward() from the same root, the first of them
\* made with all gradients 0.
TwoPasses ==
    /\ AfterBackward
    /\ Len(hist) >= 2
    /\ hist[Len(hist) - 1].op = "backward"
    /\ hist[Len(hist) - 1].root = Event.root
    /\ AllZero(hist[Len(hist) - 1].before)

C8_OnlyAccumulates ==
    /\ AfterBackward =>
        /\ nodes[Event.root].grad = One
        /\ \A n \in Ids \ {Event.root} :
            nodes[n].grad =
                SumOver(nodes, SlotsOf(nodes, Completed, n), Grads(nodes), Event.before[n])
    /\ (TwoPasses /\ ProductOfLeaves(Event.root)) =>
        /\ nodes[Event.root].grad = One
        /\ nodes[nodes[Event.root].args[1]].grad =
                RMul(RInt(2), nodes[nodes[Event.root].args[2]].data)
        /\ nodes[nodes[Event.root].args[2]].grad =
                RMul(RInt(2), nodes[nodes[Event.root].args[1]].data)

\* The second of two passes from z = a * b, with a.data and b.data distinct
\* and neither 0.
C8_Witness ==
    /\ TwoPasses
    /\ ProductOfLeaves(Event.root)
    /\ nodes[nodes[Event.root].args[1]].data # nodes[nodes[Event.root].args[2]].data
    /\ nodes[nodes[Event.root].args[1]].data # Zero
    /\ nodes[nodes[Event.root].args[2]].data # Zero
    /\ nodes[nodes[Event.root].args[1]].grad = RMul(RInt(2), nodes[nodes[Event.root].args[2]].data)

(***************************************************************************)
(* C9.  c - x with c a plain number and x a Value returns a new node of    *)
(* data c - x.data.                                                        *)
(***************************************************************************)
C9_ReverseSubtraction ==
    last.op = "rsub" =>
        /\ last.exc = "none"
        /\ IsValue(last.out)
        /\ nodes[last.out.v].data = RAdd(last.other.v, RNeg(nodes[last.self].data))

(***************************************************************************)
(* C10.  After backward(root), zero_grad(), backward(root), every          *)
(* parameter's gradient is the one it had after the first backward(root).  *)
(***************************************************************************)
\* The weights and the bias of every neuron.
Parameters ==
    UNION {{neurons[j].b} \cup {neurons[j].w[i] : i \in 1..Len(neurons[j].w)} :
           j \in 1..Len(neurons)}

\* The last three calls were backward(root), zero_grad(), backward(root).
PassResetPass ==
    /\ AfterBackward
    /\ Len(hist) >= 3
    /\ hist[Len(hist) - 1].op = "zero_grad"
    /\ hist[Len(hist) - 2].op = "backward"
    /\ hist[Len(hist) - 2].root = Event.root

FirstPass == hist[Len(hist) - 2]

C10_ResetOfParametersSuffices ==
    PassResetPass =>
        \A p \in Parameters :
            p <= Len(FirstPass.after) => nodes[p].grad = FirstPass.after[p]

\* As amended: the same, when every parameter's gradient is 0 before the
\* first backward(root) and every node reachable from the root, other than
\* the root, is a leaf.
C10_ResetSufficesOverLeaves ==
    (/\ PassResetPass
     /\ \A p \in Parameters : p <= Len(FirstPass.before) => FirstPass.before[p] = Zero
     /\ \A n \in Reach(nodes, Event.root) \ {Event.root} : IsLeaf(nodes, n))
    => \A p \in Parameters :
            p <= Len(FirstPass.after) => nodes[p].grad = FirstPass.after[p]

\* The three calls on the product of a weight and a bias, which leaves a
\* gradient other than 0 on a parameter.
C10_Witness ==
    /\ PassResetPass
    /\ \A p \in Parameters : p <= Len(FirstPass.before) => FirstPass.before[p] = Zero
    /\ nodes[Event.root].op = "mul"
    /\ nodes[Event.root].prev \subseteq Parameters
    /\ Cardinality(nodes[Event.root].prev) = 2
    /\ \E p \in nodes[Event.root].prev : nodes[p].grad # Zero
====
